---- MODULE Spec2Model ----
(***************************************************************************)
(* Campaign lifecycle of the drip e-mail tool: the CampaignManager          *)
(* document (group -> campaign -> stage -> contact), the Scheduler's Job    *)
(* set, ingestion through InputParser.build_campaign_data, and the          *)
(* delivery action fired by a Job.                                          *)
(*                                                                          *)
(* A group document is a Python dict whose stage keys are either ints (the  *)
(* keys CampaignManager indexes with: range(...) and stage: int) or strs    *)
(* (the keys InputParser.build_campaign_data writes: str(sequence_id)).     *)
(* The field key_type records which; the stages themselves are kept as a    *)
(* sequence, stage number i at position i.                                  *)
(***************************************************************************)
EXTENDS Integers, Sequences, FiniteSets, TLC

\* ---------------------------------------------------------------- bounds
MaxStages == 2
MaxLoad == 2

GroupKeys == {"g1"}
CampaignOrder == <<"c1", "c2">>
CampaignIds == {CampaignOrder[i] : i \in 1..Len(CampaignOrder)}
KeyTypes == {"int", "str"}
StageArgs == 1..MaxStages
ContactArgs == 1..MaxLoad
StatusArgs == {"Email Sent", "Skip", "Invalid Status"}

VARIABLES campaigns_workflow, jobs, last_call, store_file, event, exited,
          disk, saving

vars == <<campaigns_workflow, jobs, last_call, store_file, event, exited,
          disk, saving>>

\* ------------------------------------------------------- program constants
CONTACT_ALLOWED_STATUSES ==
    {"Not Started", "Pending", "Email Sent", "Reply Received", "Closed"}

CAMPAIGN_ALLOWED_STATUSES == {"Not Started", "In Progress", "Completed"}

\* The progress values completed_stage accepts as finished.
CompletedProgress == {"Email Sent", "Reply Received", "Closed"}

\* ------------------------------------------------------------- ingestion
\* One schedule entry as build_campaign_data sees it: contacts[i] is the
\* number of contacts of stage i, and the first `passed` stages have a start
\* time at or before now (validate_stage_time_order makes start times
\* ascending, so the stages already due form a prefix).
ContactCounts ==
    UNION {[1..n -> 1..MaxLoad] : n \in 1..MaxStages}

RECURSIVE SumSeq(_)
SumSeq(q) == IF q = <<>> THEN 0 ELSE q[1] + SumSeq(Tail(q))

ScheduleEntries ==
    {e \in [contacts : ContactCounts, passed : 0..MaxStages] :
        /\ e.passed <= Len(e.contacts)
        /\ SumSeq(e.contacts) <= MaxLoad}

\* The schedules of at most MaxLoad contact records, campaigns named in
\* CampaignOrder.
Schedules ==
    UNION {{sch \in [{CampaignOrder[i] : i \in 1..m} -> ScheduleEntries] :
              SumSeq([i \in 1..m |-> SumSeq(sch[CampaignOrder[i]].contacts)]) <= MaxLoad}
           : m \in 0..Len(CampaignOrder)}

\* A campaign whose last stage is already due is dropped from the schedule.
filter_expired_campaign(sch) ==
    [c \in {d \in DOMAIN sch : sch[d].passed < Len(sch[d].contacts)} |-> sch[c]]

\* The stage entry written for a stage that is still ahead, and for one
\* whose start time was rewritten to "expired".
NewStage(k) ==
    [sequence_status |-> "Not Started", start_time |-> "iso",
     contacts |-> [a \in 1..k |-> "Not Started"]]

ExpiredStage(k) ==
    [sequence_status |-> "Completed", start_time |-> "",
     contacts |-> [a \in 1..k |-> "Skip"]]

build_campaign_data(sch) ==
    LET kept == filter_expired_campaign(sch) IN
    [c \in DOMAIN kept |->
        [campaign_status |->
            IF kept[c].passed > 0 THEN "In Progress" ELSE "Not Started",
         stages |-> [i \in 1..Len(kept[c].contacts) |->
            IF i <= kept[c].passed THEN ExpiredStage(kept[c].contacts[i])
                                   ELSE NewStage(kept[c].contacts[i])]]]

\* The campaign data build_campaign_data can return.
CampaignsData == {build_campaign_data(sch) : sch \in Schedules}

\* Number of contact records the model holds.
Load(wf) ==
    Cardinality(UNION {UNION {UNION {{<<g, c, s, a>> :
                                 a \in DOMAIN wf[g].campaigns[c].stages[s].contacts}
                              : s \in DOMAIN wf[g].campaigns[c].stages}
                       : c \in DOMAIN wf[g].campaigns}
                 : g \in DOMAIN wf})

\* ------------------------------------------------------- CampaignManager
Ret(wf, res) == [wf |-> wf, res |-> res]

\* get_campaign(...) returns a non-empty dict.
campaign_found(wf, g, c) ==
    /\ g \in DOMAIN wf
    /\ c \in DOMAIN wf[g].campaigns

\* get_stage(...) returns a non-empty dict: `stage in campaign` with an int
\* stage finds only int keys.
stage_found(wf, g, c, s) ==
    /\ campaign_found(wf, g, c)
    /\ wf[g].key_type = "int"
    /\ s \in DOMAIN wf[g].campaigns[c].stages

get_campaign(wf, g, c) == wf[g].campaigns[c]

get_stage(wf, g, c, s) == wf[g].campaigns[c].stages[s]

\* add_campaigns without the check for a group that already exists.
add_campaigns_overwrites(wf, g, doc) ==
    Ret([x \in DOMAIN wf \cup {g} |-> IF x = g THEN doc ELSE wf[x]], "True")

add_campaigns(wf, g, doc) ==
    IF g \in DOMAIN wf
    THEN Ret(wf, "False")
    ELSE Ret([x \in DOMAIN wf \cup {g} |-> IF x = g THEN doc ELSE wf[x]], "True")

del_campaigns(wf, g) ==
    IF g \notin DOMAIN wf
    THEN Ret(wf, "False")
    ELSE Ret([x \in DOMAIN wf \ {g} |-> wf[x]], "True")

update_campaign_status(wf, g, c, status) ==
    IF ~campaign_found(wf, g, c) THEN Ret(wf, "False")
    ELSE IF status \notin CAMPAIGN_ALLOWED_STATUSES THEN Ret(wf, "False")
    ELSE Ret([wf EXCEPT ![g].campaigns[c].campaign_status = status], "True")

update_stage_status(wf, g, c, s, status) ==
    IF ~stage_found(wf, g, c, s) THEN Ret(wf, "False")
    ELSE IF status \notin CAMPAIGN_ALLOWED_STATUSES THEN Ret(wf, "False")
    ELSE Ret([wf EXCEPT ![g].campaigns[c].stages[s].sequence_status = status],
             "True")

update_contact_status_every_stage(wf, g, c, s, a, status) ==
    IF ~stage_found(wf, g, c, s) THEN Ret(wf, "False")
    ELSE IF a \notin DOMAIN get_stage(wf, g, c, s).contacts THEN Ret(wf, "False")
    ELSE IF status \notin CONTACT_ALLOWED_STATUSES THEN Ret(wf, "False")
    ELSE Ret([wf EXCEPT ![g].campaigns[c].stages =
                 [i \in DOMAIN @ |->
                     IF a \in DOMAIN @[i].contacts
                     THEN [@[i] EXCEPT !.contacts[a] = status] ELSE @[i]]],
             "True")

update_contact_status(wf, g, c, s, a, status) ==
    IF ~stage_found(wf, g, c, s) THEN Ret(wf, "False")
    ELSE IF a \notin DOMAIN get_stage(wf, g, c, s).contacts THEN Ret(wf, "False")
    ELSE IF status \notin CONTACT_ALLOWED_STATUSES THEN Ret(wf, "False")
    ELSE Ret([wf EXCEPT ![g].campaigns[c].stages[s].contacts[a] = status], "True")

\* total_stage = len(campaign) - 1
total_stage(wf, g, c) == Len(get_campaign(wf, g, c).stages)

\* The result of get_current_stage: kind "pair" is a (stage, total) tuple,
\* "none" the implicit None when the backward scan finds nothing, "raise"
\* the KeyError of campaign[sequence_id] on a document with str stage keys.
Pair(s, t) == [kind |-> "pair", stage |-> s, total |-> t]

get_current_stage(wf, g, c) ==
    IF ~campaign_found(wf, g, c) THEN Pair(0, 0)
    ELSE LET total == total_stage(wf, g, c)
             campaign == get_campaign(wf, g, c)
             started == {i \in 1..total :
                            campaign.stages[i].sequence_status # "Not Started"}
         IN IF campaign.campaign_status = "Not Started" THEN Pair(1, total)
            ELSE IF total = 0 THEN [kind |-> "none", stage |-> 0, total |-> total]
            ELSE IF wf[g].key_type # "int"
                 THEN [kind |-> "raise", stage |-> 0, total |-> total]
            ELSE IF started = {}
                 THEN [kind |-> "none", stage |-> 0, total |-> total]
            ELSE Pair(CHOOSE i \in started : \A j \in started : j <= i, total)

\* is_end_of_stage: "raise" when unpacking get_current_stage's result fails.
is_end_of_stage(wf, g, c) ==
    LET cur == get_current_stage(wf, g, c) IN
    IF cur.kind # "pair" THEN "Raise"
    ELSE IF cur.stage = 0 \/ cur.total = 0 THEN "False"
    ELSE IF cur.stage >= cur.total THEN "True" ELSE "False"

\* The loop `for contact_email in sequence["contacts"]:
\* update_contact_status(..., "Pending")`.
all_contacts_pending(wf, g, c, s) ==
    [wf EXCEPT ![g].campaigns[c].stages[s].contacts =
        [a \in DOMAIN get_stage(wf, g, c, s).contacts |->
            update_contact_status(wf, g, c, s, a, "Pending").wf
                [g].campaigns[c].stages[s].contacts[a]]]

start_campaign(wf, g, c) ==
    IF ~campaign_found(wf, g, c) THEN Ret(wf, "False")
    ELSE LET cur == get_current_stage(wf, g, c) IN
         IF cur.kind # "pair" THEN Ret(wf, "Raise")
         ELSE IF ~stage_found(wf, g, c, cur.stage) THEN Ret(wf, "False")
         ELSE LET wf1 == all_contacts_pending(wf, g, c, cur.stage)
                  wf2 == update_stage_status(wf1, g, c, cur.stage, "In Progress").wf
                  wf3 == update_campaign_status(wf2, g, c, "In Progress").wf
              IN Ret(wf3, "True")

move_to_next_stage(wf, g, c) ==
    IF ~campaign_found(wf, g, c) THEN Ret(wf, "False")
    ELSE LET end == is_end_of_stage(wf, g, c)
             next_stage == get_current_stage(wf, g, c).stage + 1
         IN IF end = "Raise" THEN Ret(wf, "Raise")
            ELSE IF end = "True" THEN Ret(wf, "False")
            ELSE IF ~stage_found(wf, g, c, next_stage) THEN Ret(wf, "Raise")
            ELSE LET wf1 == all_contacts_pending(wf, g, c, next_stage)
                     wf2 == update_stage_status(wf1, g, c, next_stage,
                                                "In Progress").wf
                 IN Ret(wf2, "True")

completed_stage(wf, g, c, s) ==
    IF ~stage_found(wf, g, c, s) THEN Ret(wf, "False")
    ELSE IF \E a \in DOMAIN get_stage(wf, g, c, s).contacts :
                get_stage(wf, g, c, s).contacts[a] \notin CompletedProgress
         THEN Ret(wf, "False")
    ELSE Ret(update_stage_status(wf, g, c, s, "Completed").wf, "True")

completed_campaign(wf, g, c) ==
    IF ~campaign_found(wf, g, c) THEN Ret(wf, "False")
    ELSE LET cur == get_current_stage(wf, g, c) IN
         IF cur.kind # "pair" THEN Ret(wf, "Raise")
         ELSE IF cur.total = 0 THEN Ret(wf, "False")
         ELSE IF wf[g].key_type # "int" THEN Ret(wf, "Raise")
         ELSE IF \E i \in 1..cur.total :
                    get_stage(wf, g, c, i).sequence_status # "Completed"
              THEN Ret(wf, "False")
         ELSE Ret(update_campaign_status(wf, g, c, "Completed").wf, "True")

\* ------------------------------------------------------------- Scheduler
SRet(wf, jb, res) == [wf |-> wf, jobs |-> jb, res |-> res]

\* A Job: its id f"{campaigns_name}_{campaign_id}_{current_stage}" and the
\* keys of the contacts dict passed as the action's first argument.
\* start_date is the trigger's start date, the stage's stored start time;
\* passed tells whether that time was at or before now when add_job ran.
Job(g, c, s, contacts, start_date, passed) ==
    [group |-> g, campaign |-> c, stage |-> s, contacts |-> contacts,
     start_date |-> start_date, passed |-> passed]

get_job(jb, g, c, s) ==
    {j \in jb : j.group = g /\ j.campaign = c /\ j.stage = s}

\* remove_job removing the Jobs of every stage of the campaign.
remove_job_of_campaign(jb, g, c, s) ==
    {j \in jb : ~(j.group = g /\ j.campaign = c)}

remove_job(jb, g, c, s) == jb \ get_job(jb, g, c, s)

\* Scheduler.remove_task: the guarded removal of schedule_next_stage as a
\* method of its own, False when the slot holds no Job.
remove_task(jb, g, c, s) ==
    IF get_job(jb, g, c, s) = {}
    THEN [jobs |-> jb, res |-> "False"]
    ELSE [jobs |-> remove_job(jb, g, c, s), res |-> "True"]

\* datetime.fromisoformat(sequence["start_time"]) raises ValueError on "".
fromisoformat_raises(wf, g, c, s) == get_stage(wf, g, c, s).start_time = ""

\* get_stage_start_time: None when get_stage finds no stage, otherwise the
\* parsed start time, "Raise" being the ValueError of fromisoformat.
get_stage_start_time(wf, g, c, s) ==
    IF ~stage_found(wf, g, c, s) THEN "None"
    ELSE IF fromisoformat_raises(wf, g, c, s) THEN "Raise"
    ELSE get_stage(wf, g, c, s).start_time

\* CampaignManager.update_stage_start_time, called by the Scheduler to store
\* the corrected start time of a stage.
update_stage_start_time(wf, g, c, s, start_time) ==
    IF ~stage_found(wf, g, c, s) THEN Ret(wf, "False")
    ELSE Ret([wf EXCEPT ![g].campaigns[c].stages[s].start_time = start_time],
             "True")

\* From the computation of the start time to the end of schedule_campaign
\* and of schedule_next_stage: time_stage is the stage whose start time is
\* compared with now, exceeded[s] the outcome of schedule_time_exceeded on
\* the stored start time of stage s. A
\* start time at or before now is replaced by now + 5 seconds, stored in the
\* current stage. add_job raises ConflictingIdError on an id already in the
\* job store; every exception ends in the caller's
\* `except Exception: return False`.
register_job(wf, jb, g, c, cur, time_stage, exceeded) ==
    IF ~stage_found(wf, g, c, time_stage) THEN SRet(wf, jb, "False")
    ELSE IF fromisoformat_raises(wf, g, c, time_stage) THEN SRet(wf, jb, "False")
    ELSE LET wf1 == IF exceeded[time_stage]
                    THEN update_stage_start_time(wf, g, c, cur, "now+5s").wf
                    ELSE wf
         IN IF ~stage_found(wf1, g, c, cur) THEN SRet(wf1, jb, "False")
            ELSE IF fromisoformat_raises(wf1, g, c, cur) THEN SRet(wf1, jb, "False")
            ELSE IF get_job(jb, g, c, cur) # {} THEN SRet(wf1, jb, "False")
            ELSE SRet(update_stage_status(wf1, g, c, cur, "In Progress").wf,
                      jb \cup {Job(g, c, cur, DOMAIN get_stage(wf1, g, c, cur).contacts,
                                   get_stage(wf1, g, c, cur).start_time,
                                   ~exceeded[time_stage] /\ exceeded[cur])},
                      "True")

schedule_campaign(wf, jb, g, c, exceeded) ==
    IF ~campaign_found(wf, g, c) THEN SRet(wf, jb, "False")
    ELSE LET started == start_campaign(wf, g, c) IN
         IF started.res # "True" THEN SRet(started.wf, jb, "False")
         ELSE LET cur == get_current_stage(started.wf, g, c) IN
              IF cur.kind # "pair" THEN SRet(started.wf, jb, "False")
              ELSE register_job(started.wf, jb, g, c, cur.stage, 1, exceeded)

schedule_next_stage(wf, jb, g, c, exceeded) ==
    IF ~campaign_found(wf, g, c) THEN SRet(wf, jb, "False")
    ELSE LET cur == get_current_stage(wf, g, c) IN
         IF cur.kind # "pair" THEN SRet(wf, jb, "False")
         ELSE LET jb1 == remove_job(jb, g, c, cur.stage)
                  moved == move_to_next_stage(wf, g, c)
              IN IF moved.res = "Raise" THEN SRet(moved.wf, jb1, "False")
                 ELSE IF moved.res = "False"
                      THEN SRet(update_stage_status(wf, g, c, cur.stage,
                                                    "Completed").wf, jb1, "False")
                 ELSE LET cur2 == get_current_stage(moved.wf, g, c) IN
                      IF cur2.kind # "pair" THEN SRet(moved.wf, jb1, "False")
                      ELSE register_job(moved.wf, jb1, g, c, cur2.stage,
                                        cur2.stage, exceeded)

\* The value x under the name that F gives it.
Bind(x, F(_)) == F(x)

\* ------------------------------------------------------------------ main
\* send_email_action: every contact of the Job's contacts dict whose e-mail
\* content could be built (the set built) is reported "Email Sent".
RECURSIVE send_email_action(_, _, _)
send_email_action(wf, j, todo) ==
    IF todo = {} THEN wf
    ELSE LET a == CHOOSE x \in todo : TRUE IN
         send_email_action(
             update_contact_status(wf, j.group, j.campaign, j.stage, a,
                                   "Email Sent").wf,
             j, todo \ {a})

\* start_campaigns: schedule_campaign for the campaigns of the group in
\* order, from position i on; the first failure returns.
RECURSIVE start_campaigns(_, _, _, _, _)
start_campaigns(wf, jb, g, i, exceeded) ==
    IF i > Len(CampaignOrder) THEN SRet(wf, jb, "None")
    ELSE IF CampaignOrder[i] \notin DOMAIN wf[g].campaigns
         THEN start_campaigns(wf, jb, g, i + 1, exceeded)
    ELSE LET r == schedule_campaign(wf, jb, g, CampaignOrder[i],
                                    [s \in StageArgs |-> exceeded[CampaignOrder[i]]])
         IN IF r.res # "True" THEN SRet(r.wf, r.jobs, "False")
            ELSE start_campaigns(r.wf, r.jobs, g, i + 1, exceeded)

\* The campaigns of the group that start_campaigns calls schedule_campaign
\* for: the loop returns at the first call that fails.
RECURSIVE start_campaigns_calls(_, _, _, _, _)
start_campaigns_calls(wf, jb, g, i, exceeded) ==
    IF i > Len(CampaignOrder) THEN {}
    ELSE IF CampaignOrder[i] \notin DOMAIN wf[g].campaigns
         THEN start_campaigns_calls(wf, jb, g, i + 1, exceeded)
    ELSE Bind(schedule_campaign(wf, jb, g, CampaignOrder[i],
                                [s \in StageArgs |-> exceeded[CampaignOrder[i]]]),
              LAMBDA r :
                {CampaignOrder[i]} \cup
                (IF r.res # "True" THEN {}
                 ELSE start_campaigns_calls(r.wf, r.jobs, g, i + 1, exceeded)))

process_directory(wf, jb, g, data, exceeded) ==
    LET added == add_campaigns(wf, g, [key_type |-> "str", campaigns |-> data]) IN
    IF added.res # "True" THEN SRet(wf, jb, "False")
    ELSE start_campaigns(added.wf, jb, g, 1, exceeded)

\* completed_all_campaigns: false for a group that is missing or has no
\* campaign; otherwise the loop unpacks campaigns.items() as
\* (_, campaign_id), so campaign_id is the campaign's dict and the membership
\* test of get_campaign raises TypeError (unhashable dict).
completed_all_campaigns_true(wf, g) == "True"

completed_all_campaigns(wf, g) ==
    IF g \notin DOMAIN wf THEN "False"
    ELSE IF DOMAIN wf[g].campaigns = {} THEN "False"
    ELSE "Raise"

\* The body of the control loop for one campaign: nothing unless its current
\* stage is complete; then the next stage is scheduled, or, the campaign
\* being complete, its task is removed. "Raise" is an exception that leaves
\* the loop. exceeded gives the outcomes of schedule_time_exceeded.
loop_campaign_keeps_task(wf, jb, g, c, exceeded) ==
    Bind(get_current_stage(wf, g, c), LAMBDA cur :
      IF cur.kind # "pair" THEN SRet(wf, jb, "Raise")
      ELSE Bind(completed_stage(wf, g, c, cur.stage), LAMBDA cs :
        IF cs.res # "True" THEN SRet(cs.wf, jb, "None")
        ELSE Bind(completed_campaign(cs.wf, g, c), LAMBDA cc :
          IF cc.res = "Raise" THEN SRet(cc.wf, jb, "Raise")
          ELSE IF cc.res = "True" THEN SRet(cc.wf, jb, "None")
          ELSE Bind(schedule_next_stage(cc.wf, jb, g, c, exceeded),
                    LAMBDA sn : SRet(sn.wf, sn.jobs, "None")))))

loop_campaign(wf, jb, g, c, exceeded) ==
    Bind(get_current_stage(wf, g, c), LAMBDA cur :
      IF cur.kind # "pair" THEN SRet(wf, jb, "Raise")
      ELSE Bind(completed_stage(wf, g, c, cur.stage), LAMBDA cs :
        IF cs.res # "True" THEN SRet(cs.wf, jb, "None")
        ELSE Bind(completed_campaign(cs.wf, g, c), LAMBDA cc :
          IF cc.res = "Raise" THEN SRet(cc.wf, jb, "Raise")
          ELSE IF cc.res = "True"
          THEN SRet(cc.wf, remove_task(jb, g, c, cur.stage).jobs, "None")
          ELSE Bind(schedule_next_stage(cc.wf, jb, g, c, exceeded),
                    LAMBDA sn : SRet(sn.wf, sn.jobs, "None")))))

\* The campaigns of one group in order, from position i on.
RECURSIVE loop_campaigns(_, _, _, _, _)
loop_campaigns(wf, jb, g, i, exceeded) ==
    IF i > Len(CampaignOrder) THEN SRet(wf, jb, "None")
    ELSE IF CampaignOrder[i] \notin DOMAIN wf[g].campaigns
         THEN loop_campaigns(wf, jb, g, i + 1, exceeded)
    ELSE Bind(loop_campaign(wf, jb, g, CampaignOrder[i],
                            exceeded[CampaignOrder[i]]), LAMBDA r :
           IF r.res = "Raise" THEN r
           ELSE loop_campaigns(r.wf, r.jobs, g, i + 1, exceeded))

\* One pass of the control loop over the groups still to visit.
RECURSIVE control_loop(_, _, _, _)
control_loop(wf, jb, todo, exceeded) ==
    IF todo = {} THEN SRet(wf, jb, "None")
    ELSE Bind(CHOOSE x \in todo : TRUE, LAMBDA g :
         Bind(loop_campaigns(wf, jb, g, 1, exceeded), LAMBDA lc :
           IF lc.res = "Raise" THEN lc
           ELSE Bind(completed_all_campaigns(lc.wf, g), LAMBDA all :
             IF all = "Raise" THEN SRet(lc.wf, lc.jobs, "Raise")
             ELSE IF all = "True"
             THEN control_loop(del_campaigns(lc.wf, g).wf, lc.jobs,
                               todo \ {g}, exceeded)
             ELSE control_loop(lc.wf, lc.jobs, todo \ {g}, exceeded))))

\* ----------------------------------------------------------- persistence
\* config.FILE_PERSISTENCE as the repository sets it. Nothing in src reads
\* it: save_state and the constructor do not depend on it.
FILE_PERSISTENCE == FALSE

\* json.dump writes every dict key as a string, so the stage keys of the
\* written document are strings whatever they were in memory.
json_dump(wf) == [g \in DOMAIN wf |-> [wf[g] EXCEPT !.key_type = "str"]]

\* json.load returns the document with the keys as written.
json_load(doc) == doc

NoFile == [exists |-> FALSE, doc |-> <<>>]

\* save_state replaces the store file by the dump of the whole document. It
\* is the last statement of every mutator that succeeded, so after a call
\* that left the document wf2 the file holds the dump of wf2 when a mutator
\* succeeded (the document differs from wf, the one before the call; a
\* mutator that rewrote equal values rewrote an equal file) and is untouched
\* otherwise.
save_state_once(store, wf, wf2) ==
    IF wf2 # wf /\ ~store.exists
    THEN [exists |-> TRUE, doc |-> json_dump(wf2)] ELSE store

save_state(store, wf, wf2) ==
    IF wf2 # wf THEN [exists |-> TRUE, doc |-> json_dump(wf2)] ELSE store

\* CampaignManager(None, store_file = ...): the document of a new manager is
\* the loaded file when the file exists and empty otherwise.
load_state(store) == IF store.exists THEN json_load(store.doc) ELSE <<>>

\* ---------------------------------------------------------------- state
\* The outcomes of schedule_time_exceeded on the stored start times of the
\* stages of a campaign at one moment. The ingested start times ascend with
\* the stage number (validate_stage_time_order) and the corrected ones too
\* (a later stage is corrected later), so of two stages with start times of
\* the same kind the later one has not passed before the earlier one.
ExceededArgs == [StageArgs -> BOOLEAN]

time_consistent(wf, g, c, exceeded) ==
    campaign_found(wf, g, c)
    => \A i, s \in DOMAIN get_campaign(wf, g, c).stages :
          (/\ i < s
           /\ get_campaign(wf, g, c).stages[i].start_time
                = get_campaign(wf, g, c).stages[s].start_time
           /\ exceeded[s])
          => exceeded[i]

Call(op, g, res) == [op |-> op, group |-> g, res |-> res]

\* The threads of the process that call the manager: the job runner's
\* worker (send_email_action) and the main thread (the control loop).
Threads == {"runner", "main"}

\* Where a thread is inside a mutator: "idle" outside, "mark" between the
\* check and the update of completed_stage, then inside save_state before
\* open ("open"), before json.dump ("dump") and before the file is closed
\* ("close"). text is what json.dump put into the thread's file object.
Idle == [pc |-> "idle", text |-> <<>>, group |-> "", campaign |-> "", stage |-> 0]

Init ==
    /\ campaigns_workflow = <<>>
    /\ jobs = {}
    /\ last_call = Call("init", "", "True")
    /\ store_file = NoFile
    /\ event = FALSE
    /\ exited = FALSE
    /\ disk = "whole"
    /\ saving = [t \in Threads |-> Idle]

\* A call of the manager or the scheduler that left the document wf2: the
\* process is running, and the store file follows the document.
Running(wf2) ==
    /\ ~exited
    /\ campaigns_workflow' = wf2
    /\ store_file' = save_state(store_file, campaigns_workflow, wf2)
    /\ UNCHANGED <<exited, disk, saving>>

\* add_campaigns called with a caller-built document. A document without
\* campaigns has no stage key, so it is the same document for either type.
AddCampaigns(g, kt, data) ==
    LET doc == [key_type |-> kt, campaigns |-> data]
        r == add_campaigns(campaigns_workflow, g, doc)
    IN /\ DOMAIN data = {} => kt = "str"
       /\ Load(r.wf) <= MaxLoad
       /\ Running(r.wf)
       /\ last_call' = Call("add_campaigns", g, r.res)
       /\ UNCHANGED <<jobs, event>>

DelCampaigns(g) ==
    LET r == del_campaigns(campaigns_workflow, g) IN
    /\ Running(r.wf)
    /\ last_call' = Call("del_campaigns", g, r.res)
    /\ UNCHANGED <<jobs, event>>

UpdateCampaignStatus(g, c, status) ==
    LET r == update_campaign_status(campaigns_workflow, g, c, status) IN
    /\ Running(r.wf)
    /\ last_call' = Call("update_campaign_status", g, r.res)
    /\ UNCHANGED <<jobs, event>>

UpdateStageStatus(g, c, s, status) ==
    LET r == update_stage_status(campaigns_workflow, g, c, s, status) IN
    /\ Running(r.wf)
    /\ last_call' = Call("update_stage_status", g, r.res)
    /\ UNCHANGED <<jobs, event>>

StartCampaign(g, c) ==
    LET r == start_campaign(campaigns_workflow, g, c) IN
    /\ Running(r.wf)
    /\ last_call' = Call("start_campaign", g, r.res)
    /\ UNCHANGED <<jobs, event>>

MoveToNextStage(g, c) ==
    LET r == move_to_next_stage(campaigns_workflow, g, c) IN
    /\ Running(r.wf)
    /\ last_call' = Call("move_to_next_stage", g, r.res)
    /\ UNCHANGED <<jobs, event>>

CompletedStage(g, c, s) ==
    LET r == completed_stage(campaigns_workflow, g, c, s) IN
    /\ Running(r.wf)
    /\ last_call' = Call("completed_stage", g, r.res)
    /\ UNCHANGED <<jobs, event>>

CompletedCampaign(g, c) ==
    LET r == completed_campaign(campaigns_workflow, g, c) IN
    /\ Running(r.wf)
    /\ last_call' = Call("completed_campaign", g, r.res)
    /\ UNCHANGED <<jobs, event>>

UpdateContactStatus(g, c, s, a, status) ==
    LET r == update_contact_status(campaigns_workflow, g, c, s, a, status) IN
    /\ Running(r.wf)
    /\ last_call' = Call("update_contact_status", g, r.res)
    /\ UNCHANGED <<jobs, event>>

ScheduleCampaign(g, c, exceeded) ==
    LET r == schedule_campaign(campaigns_workflow, jobs, g, c, exceeded) IN
    /\ time_consistent(campaigns_workflow, g, c, exceeded)
    /\ Running(r.wf)
    /\ jobs' = r.jobs
    /\ last_call' = Call("schedule_campaign", g, r.res)
    /\ UNCHANGED event

ScheduleNextStage(g, c, exceeded) ==
    LET r == schedule_next_stage(campaigns_workflow, jobs, g, c, exceeded) IN
    /\ time_consistent(campaigns_workflow, g, c, exceeded)
    /\ Running(r.wf)
    /\ jobs' = r.jobs
    /\ last_call' = Call("schedule_next_stage", g, r.res)
    /\ UNCHANGED event

RemoveTask(g, c, s) ==
    LET r == remove_task(jobs, g, c, s) IN
    /\ Running(campaigns_workflow)
    /\ jobs' = r.jobs
    /\ last_call' = Call("remove_task", g, r.res)
    /\ UNCHANGED event

\* A new schedule directory is discovered and processed. start_campaigns
\* returns False or None, so the event is not set.
ProcessDirectory(g, data, exceeded) ==
    LET r == process_directory(campaigns_workflow, jobs, g, data, exceeded) IN
    /\ Load(r.wf) <= MaxLoad
    /\ Running(r.wf)
    /\ jobs' = r.jobs
    /\ last_call' = Call("process_directory", g, r.res)
    /\ UNCHANGED event

\* The job runner fires a Job; the event is set for every contact whose
\* e-mail was built.
JobFires(j, built) ==
    /\ j \in jobs
    /\ built \subseteq j.contacts
    /\ Running(send_email_action(campaigns_workflow, j, built))
    /\ event' = (event \/ built # {})
    /\ last_call' = Call("send_email_action", j.group, "None")
    /\ UNCHANGED jobs

\* One pass of the control loop of main after the event was set. An
\* exception leaves the loop: the scheduler is shut down and the process
\* exits. Otherwise the event is cleared at the end of the pass.
ControlLoop(exceeded) ==
    /\ ~exited
    /\ event
    /\ \A g \in DOMAIN campaigns_workflow, c \in CampaignIds :
          time_consistent(campaigns_workflow, g, c, exceeded[c])
    /\ \E r \in {control_loop(campaigns_workflow, jobs,
                              DOMAIN campaigns_workflow, exceeded)} :
          /\ campaigns_workflow' = r.wf
          /\ store_file' = save_state(store_file, campaigns_workflow, r.wf)
          /\ jobs' = IF r.res = "Raise" THEN {} ELSE r.jobs
          /\ exited' = (r.res = "Raise")
          /\ event' = FALSE
          /\ last_call' = Call("control_loop", "", r.res)
          /\ UNCHANGED <<disk, saving>>

\* The process is started again: a new manager is built from the store
\* file and a new scheduler holds no Job.
Restart ==
    /\ campaigns_workflow' = load_state(store_file)
    /\ jobs' = {}
    /\ event' = FALSE
    /\ exited' = FALSE
    /\ last_call' = Call("restart", "", "None")
    /\ UNCHANGED <<store_file, disk, saving>>

Next ==
    \/ \E g \in GroupKeys, kt \in KeyTypes, data \in CampaignsData :
          AddCampaigns(g, kt, data)
    \/ \E g \in GroupKeys, c \in CampaignIds : StartCampaign(g, c)
    \/ \E g \in GroupKeys, c \in CampaignIds : MoveToNextStage(g, c)
    \/ \E g \in GroupKeys, c \in CampaignIds, s \in StageArgs : CompletedStage(g, c, s)
    \/ \E g \in GroupKeys, c \in CampaignIds : CompletedCampaign(g, c)
    \/ \E g \in GroupKeys, c \in CampaignIds, s \in StageArgs, a \in ContactArgs,
          status \in StatusArgs : UpdateContactStatus(g, c, s, a, status)
    \/ \E g \in GroupKeys, c \in CampaignIds, exceeded \in ExceededArgs :
          ScheduleCampaign(g, c, exceeded)
    \/ \E g \in GroupKeys, c \in CampaignIds, exceeded \in ExceededArgs :
          ScheduleNextStage(g, c, exceeded)
    \/ \E g \in GroupKeys, c \in CampaignIds, s \in StageArgs : RemoveTask(g, c, s)
    \/ \E g \in GroupKeys, data \in CampaignsData,
          exceeded \in [CampaignIds -> BOOLEAN] : ProcessDirectory(g, data, exceeded)
    \/ \E j \in jobs : \E built \in SUBSET j.contacts : JobFires(j, built)
    \/ \E exceeded \in [CampaignIds -> ExceededArgs] : ControlLoop(exceeded)
    \/ Restart

Spec == Init /\ [][Next]_vars

\* The CampaignManager alone: its mutators called in any order, and a new
\* manager built from the store file.
ManagerNext ==
    \/ \E g \in GroupKeys, kt \in KeyTypes, data \in CampaignsData :
          AddCampaigns(g, kt, data)
    \/ \E g \in GroupKeys : DelCampaigns(g)
    \/ \E g \in GroupKeys, c \in CampaignIds,
          status \in CAMPAIGN_ALLOWED_STATUSES \cup {"Invalid Status"} :
          UpdateCampaignStatus(g, c, status)
    \/ \E g \in GroupKeys, c \in CampaignIds, s \in StageArgs,
          status \in CAMPAIGN_ALLOWED_STATUSES \cup {"Invalid Status"} :
          UpdateStageStatus(g, c, s, status)
    \/ \E g \in GroupKeys, c \in CampaignIds, s \in StageArgs, a \in ContactArgs,
          status \in StatusArgs : UpdateContactStatus(g, c, s, a, status)
    \/ \E g \in GroupKeys, c \in CampaignIds : StartCampaign(g, c)
    \/ \E g \in GroupKeys, c \in CampaignIds : MoveToNextStage(g, c)
    \/ \E g \in GroupKeys, c \in CampaignIds, s \in StageArgs : CompletedStage(g, c, s)
    \/ \E g \in GroupKeys, c \in CampaignIds : CompletedCampaign(g, c)
    \/ Restart

ManagerSpec == Init /\ [][ManagerNext]_vars

\* The contact records alone: groups are added, campaigns started and
\* contacts reported.
ContactNext ==
    \/ \E g \in GroupKeys, kt \in KeyTypes, data \in CampaignsData :
          AddCampaigns(g, kt, data)
    \/ \E g \in GroupKeys, c \in CampaignIds : StartCampaign(g, c)
    \/ \E g \in GroupKeys, c \in CampaignIds, s \in StageArgs, a \in ContactArgs,
          status \in StatusArgs : UpdateContactStatus(g, c, s, a, status)

ContactSpec == Init /\ [][ContactNext]_vars

\* -------------------------------------------------------- failing store
\* A mutator called while the store file cannot be written: save_state is
\* its last statement before `return True` and has no exception handler, so
\* the OSError of open() leaves the mutator after the assignment to the
\* document. A call that returns False before save_state is as usual.
save_state_raises(r) == IF r.res = "True" THEN Ret(r.wf, "Raise") ELSE r

\* start_campaign while the store file cannot be written: the exception of
\* its first mutator call, update_contact_status for the first contact of
\* the stage, leaves start_campaign.
start_campaign_store_fails(wf, g, c) ==
    IF ~campaign_found(wf, g, c) THEN Ret(wf, "False")
    ELSE Bind(get_current_stage(wf, g, c), LAMBDA cur :
         IF cur.kind # "pair" THEN Ret(wf, "Raise")
         ELSE IF ~stage_found(wf, g, c, cur.stage) THEN Ret(wf, "False")
         ELSE Bind(DOMAIN get_stage(wf, g, c, cur.stage).contacts, LAMBDA contacts :
              IF contacts = {}
              THEN save_state_raises(
                       update_stage_status(wf, g, c, cur.stage, "In Progress"))
              ELSE save_state_raises(
                       update_contact_status(
                           wf, g, c, cur.stage,
                           CHOOSE a \in contacts : \A b \in contacts : a <= b,
                           "Pending"))))

\* The file is not written; the document is as the call left it.
StoreFails(op, g, r) ==
    /\ campaigns_workflow' = r.wf
    /\ last_call' = Call(op, g, r.res)
    /\ UNCHANGED <<jobs, store_file, event, exited, disk, saving>>

AddCampaignsStoreFails(g, kt, data) ==
    LET r == save_state_raises(add_campaigns(campaigns_workflow, g,
                                   [key_type |-> kt, campaigns |-> data]))
    IN /\ ~exited
       /\ DOMAIN data = {} => kt = "str"
       /\ Load(r.wf) <= MaxLoad
       /\ StoreFails("add_campaigns", g, r)

UpdateContactStatusStoreFails(g, c, s, a, status) ==
    LET r == save_state_raises(
                 update_contact_status(campaigns_workflow, g, c, s, a, status))
    IN /\ ~exited
       /\ StoreFails("update_contact_status", g, r)

StartCampaignStoreFails(g, c) ==
    LET r == start_campaign_store_fails(campaigns_workflow, g, c)
    IN /\ ~exited
       /\ StoreFails("start_campaign", g, r)

\* The CampaignManager with a store file that can fail to be written.
FaultNext ==
    \/ ManagerNext
    \/ \E g \in GroupKeys, kt \in KeyTypes, data \in CampaignsData :
          AddCampaignsStoreFails(g, kt, data)
    \/ \E g \in GroupKeys, c \in CampaignIds, s \in StageArgs, a \in ContactArgs,
          status \in StatusArgs : UpdateContactStatusStoreFails(g, c, s, a, status)
    \/ \E g \in GroupKeys, c \in CampaignIds : StartCampaignStoreFails(g, c)

FaultSpec == Init /\ [][FaultNext]_vars

\* -------------------------------------------------------------- threads
\* The manager holds no lock, so the statements of the mutators that the
\* threads run interleave. A thread assigns into the document and then runs
\* save_state: open(path, "w") truncates the file, json.dump serializes the
\* document as it is at that moment into the thread's own file object, and
\* closing it writes the text from offset 0.
ThreadAssign(t, r) ==
    /\ saving[t].pc = "idle"
    /\ r.res = "True"
    /\ campaigns_workflow' = r.wf
    /\ saving' = [saving EXCEPT ![t].pc = "open"]
    /\ UNCHANGED <<jobs, last_call, store_file, event, exited, disk>>

\* add_campaigns up to its assignment.
ThreadAddCampaigns(t, g, kt, data) ==
    LET r == add_campaigns(campaigns_workflow, g,
                           [key_type |-> kt, campaigns |-> data])
    IN /\ DOMAIN data = {} => kt = "str"
       /\ Load(r.wf) <= MaxLoad
       /\ ThreadAssign(t, r)

\* update_contact_status up to its assignment.
ThreadUpdateContactStatus(t, g, c, s, a, status) ==
    LET r == update_contact_status(campaigns_workflow, g, c, s, a, status)
    IN /\ stage_found(campaigns_workflow, g, c, s)
       /\ ThreadAssign(t, r)

\* completed_stage up to the end of its loop over the contacts, when every
\* contact was found finished.
ThreadCheckStage(t, g, c, s) ==
    /\ saving[t].pc = "idle"
    /\ stage_found(campaigns_workflow, g, c, s)
    /\ \A a \in DOMAIN get_stage(campaigns_workflow, g, c, s).contacts :
          get_stage(campaigns_workflow, g, c, s).contacts[a] \in CompletedProgress
    /\ saving' = [saving EXCEPT ![t] = [pc |-> "mark", text |-> <<>>,
                                         group |-> g, campaign |-> c, stage |-> s]]
    /\ UNCHANGED <<campaigns_workflow, jobs, last_call, store_file, event,
                   exited, disk>>

\* completed_stage calls update_stage_status, up to its assignment.
ThreadMarkStage(t) ==
    /\ saving[t].pc = "mark"
    /\ campaigns_workflow' =
          update_stage_status(campaigns_workflow, saving[t].group,
                              saving[t].campaign, saving[t].stage, "Completed").wf
    /\ saving' = [saving EXCEPT ![t].pc = "open"]
    /\ UNCHANGED <<jobs, last_call, store_file, event, exited, disk>>

\* open(file_path, "w"): the file exists and is empty.
ThreadOpen(t) ==
    /\ saving[t].pc = "open"
    /\ disk' = "empty"
    /\ store_file' = [store_file EXCEPT !.exists = TRUE]
    /\ saving' = [saving EXCEPT ![t].pc = "dump"]
    /\ UNCHANGED <<campaigns_workflow, jobs, last_call, event, exited>>

\* json.dump(data, f, indent=2): the text stays in the buffer of f (a text
\* longer than the buffer would reach the file in parts).
ThreadDump(t) ==
    /\ saving[t].pc = "dump"
    /\ saving' = [saving EXCEPT ![t].pc = "close",
                                ![t].text = json_dump(campaigns_workflow)]
    /\ UNCHANGED <<campaigns_workflow, jobs, last_call, store_file, event,
                   exited, disk>>

\* The number of characters of the values in the text of a document that a
\* mutator can change. Two texts of documents with the same groups,
\* campaigns, stages and contacts differ in length by the difference of
\* these numbers.
StrLen(s) ==
    CASE s = "Not Started" -> 11
      [] s = "In Progress" -> 11
      [] s = "Completed" -> 9
      [] s = "Pending" -> 7
      [] s = "Email Sent" -> 10
      [] s = "Reply Received" -> 14
      [] s = "Closed" -> 6
      [] s = "Skip" -> 4
      [] s = "iso" -> 19
      [] s = "now+5s" -> 26
      [] OTHER -> 0

StageLen(stage) ==
    StrLen(stage.sequence_status) + StrLen(stage.start_time)
      + SumSeq([a \in 1..Len(stage.contacts) |-> StrLen(stage.contacts[a])])

CampaignLen(campaign) ==
    StrLen(campaign.campaign_status)
      + SumSeq([s \in 1..Len(campaign.stages) |-> StageLen(campaign.stages[s])])

RECURSIVE TextLen(_, _)
TextLen(doc, todo) ==
    IF todo = {} THEN 0
    ELSE LET g == CHOOSE x \in todo : TRUE IN
         SumSeq([i \in 1..Len(CampaignOrder) |->
                    IF CampaignOrder[i] \in DOMAIN doc[g].campaigns
                    THEN CampaignLen(doc[g].campaigns[CampaignOrder[i]])
                    ELSE 0])
           + TextLen(doc, todo \ {g})

\* Leaving the with block closes f: the text is written from offset 0. When
\* another thread wrote its whole text since this thread's open, the file
\* holds this thread's text if that is at least as long, and this thread's
\* text followed by the end of the other one if it is shorter.
ThreadClose(t) ==
    LET text == saving[t].text
        covers == \/ disk # "whole"
                  \/ TextLen(text, DOMAIN text)
                       >= TextLen(store_file.doc, DOMAIN store_file.doc)
    IN /\ saving[t].pc = "close"
       /\ disk' = IF covers THEN "whole" ELSE "partial"
       /\ store_file' = IF covers THEN [exists |-> TRUE, doc |-> text]
                        ELSE store_file
       /\ saving' = [saving EXCEPT ![t] = Idle]
       /\ UNCHANGED <<campaigns_workflow, jobs, last_call, event, exited>>

ThreadNext ==
    \/ \E t \in Threads, g \in GroupKeys, kt \in KeyTypes, data \in CampaignsData :
          ThreadAddCampaigns(t, g, kt, data)
    \/ \E t \in Threads, g \in GroupKeys, c \in CampaignIds, s \in StageArgs,
          a \in ContactArgs, status \in {"Pending", "Email Sent"} :
          ThreadUpdateContactStatus(t, g, c, s, a, status)
    \/ \E t \in Threads, g \in GroupKeys, c \in CampaignIds, s \in StageArgs :
          ThreadCheckStage(t, g, c, s)
    \/ \E t \in Threads : ThreadMarkStage(t)
    \/ \E t \in Threads : ThreadOpen(t)
    \/ \E t \in Threads : ThreadDump(t)
    \/ \E t \in Threads : ThreadClose(t)

ThreadSpec == Init /\ [][ThreadNext]_vars

\* -------------------------------------------------------------- shutdown
\* The job runner's worker and shutdown_scheduler. The Scheduler calls
\* BackgroundScheduler.shutdown() with its default wait = True: the scheduler
\* stops handing Jobs to the worker at once, the call returns when the
\* worker has finished the action it is running, and the job store is
\* emptied.
shutdown_scheduler_no_wait(sv) == TRUE

shutdown_scheduler_returns(sv) == sv["runner"].pc = "idle"

\* The worker begins send_email_action for a Job that fired.
RunnerStarts(j) ==
    /\ ~exited
    /\ j \in jobs
    /\ saving["main"].pc # "shutdown"
    /\ saving["runner"].pc = "idle"
    /\ saving' = [saving EXCEPT !["runner"] =
                     [Idle EXCEPT !.pc = "action", !.group = j.group,
                                  !.campaign = j.campaign, !.stage = j.stage]]
    /\ UNCHANGED <<campaigns_workflow, jobs, last_call, store_file, event,
                   exited, disk>>

\* The worker ends the action: the contacts whose e-mail was built are
\* reported and the event is set for each of them.
RunnerEnds(built) ==
    /\ saving["runner"].pc = "action"
    /\ \E j \in get_job(jobs, saving["runner"].group, saving["runner"].campaign,
                        saving["runner"].stage) :
          /\ built \subseteq j.contacts
          /\ \E wf2 \in {send_email_action(campaigns_workflow, j, built)} :
                /\ campaigns_workflow' = wf2
                /\ store_file' = save_state(store_file, campaigns_workflow, wf2)
          /\ last_call' = Call("send_email_action", j.group, "None")
    /\ event' = (event \/ built # {})
    /\ saving' = [saving EXCEPT !["runner"] = Idle]
    /\ UNCHANGED <<jobs, exited, disk>>

\* The main thread calls shutdown_scheduler.
ShutdownBegins ==
    /\ ~exited
    /\ saving["main"].pc = "idle"
    /\ saving' = [saving EXCEPT !["main"].pc = "shutdown"]
    /\ last_call' = Call("shutdown_scheduler", "", "None")
    /\ UNCHANGED <<campaigns_workflow, jobs, store_file, event, exited, disk>>

\* shutdown_scheduler returns.
ShutdownReturns ==
    /\ saving["main"].pc = "shutdown"
    /\ shutdown_scheduler_returns(saving)
    /\ jobs' = {}
    /\ exited' = TRUE
    /\ saving' = [saving EXCEPT !["main"] = Idle]
    /\ UNCHANGED <<campaigns_workflow, last_call, store_file, event, disk>>

ShutdownNext ==
    \/ \E g \in GroupKeys, kt \in KeyTypes, data \in CampaignsData :
          AddCampaigns(g, kt, data)
    \/ \E g \in GroupKeys, c \in CampaignIds, exceeded \in ExceededArgs :
          ScheduleCampaign(g, c, exceeded)
    \/ \E j \in jobs : RunnerStarts(j)
    \/ \E built \in SUBSET ContactArgs : RunnerEnds(built)
    \/ ShutdownBegins
    \/ ShutdownReturns

ShutdownSpec == Init /\ [][ShutdownNext]_vars

\* The program as main runs it: documents come in through add_campaigns and
\* process_directory, the Scheduler's schedule_campaign and
\* schedule_next_stage register the Jobs, the job runner fires them and the
\* control loop follows up.
MainNext ==
    \/ \E g \in GroupKeys, kt \in KeyTypes, data \in CampaignsData :
          AddCampaigns(g, kt, data)
    \/ \E g \in GroupKeys, data \in CampaignsData,
          exceeded \in [CampaignIds -> BOOLEAN] : ProcessDirectory(g, data, exceeded)
    \/ \E g \in GroupKeys, c \in CampaignIds, exceeded \in ExceededArgs :
          ScheduleCampaign(g, c, exceeded)
    \/ \E g \in GroupKeys, c \in CampaignIds, exceeded \in ExceededArgs :
          ScheduleNextStage(g, c, exceeded)
    \/ \E j \in jobs : \E built \in SUBSET j.contacts : JobFires(j, built)
    \/ \E exceeded \in [CampaignIds -> ExceededArgs] : ControlLoop(exceeded)

MainSpec == Init /\ [][MainNext]_vars

\* The program left to run: the job runner fires every Job again and again
\* (with every e-mail built and sent), and the control loop makes a pass
\* whenever the event is set.
LiveSpec ==
    /\ Init
    /\ [][MainNext]_vars
    /\ WF_vars(\E j \in jobs : JobFires(j, j.contacts))
    /\ WF_vars(\E exceeded \in [CampaignIds -> ExceededArgs] : ControlLoop(exceeded))

\* The program stopped and started again at any moment: the new process
\* loads the store file, and ingests the schedule directories it finds as
\* process_directory does.
RestartNext ==
    \/ MainNext
    \/ Restart

RestartSpec ==
    /\ Init
    /\ [][RestartNext]_vars
    /\ WF_vars(\E j \in jobs : JobFires(j, j.contacts))
    /\ WF_vars(\E exceeded \in [CampaignIds -> ExceededArgs] : ControlLoop(exceeded))

\* ---------------------------------------------------------------- claims
\* A stage of the document, whatever the type of its key.
stage_in_document(wf, g, c, s) ==
    /\ campaign_found(wf, g, c)
    /\ s \in DOMAIN wf[g].campaigns[c].stages

StatusRank(status) ==
    CASE status = "Not Started" -> 0
      [] status = "In Progress" -> 1
      [] status = "Completed" -> 2

\* Terminal contact progress.
TerminalProgress == {"Email Sent", "Reply Received", "Closed", "Skip"}

\* C1: no step takes a stage's status backward along
\* Not Started -> In Progress -> Completed.
C1_StageStatusNeverMovesBack ==
    [][\A g \in GroupKeys, c \in CampaignIds, s \in StageArgs :
          (/\ stage_in_document(campaigns_workflow, g, c, s)
           /\ stage_in_document(campaigns_workflow', g, c, s))
          => StatusRank(get_stage(campaigns_workflow', g, c, s).sequence_status)
               >= StatusRank(get_stage(campaigns_workflow, g, c, s).sequence_status)
      ]_vars

\* C2: no step sets a stage's status to Completed while one of its contacts
\* has a progress that is not terminal.
C2_CompletedOnlyWithTerminalContacts ==
    [][\A g \in GroupKeys, c \in CampaignIds, s \in StageArgs :
          (/\ stage_in_document(campaigns_workflow, g, c, s)
           /\ stage_in_document(campaigns_workflow', g, c, s)
           /\ get_stage(campaigns_workflow, g, c, s).sequence_status # "Completed"
           /\ get_stage(campaigns_workflow', g, c, s).sequence_status = "Completed")
          => \A a \in DOMAIN get_stage(campaigns_workflow', g, c, s).contacts :
                get_stage(campaigns_workflow', g, c, s).contacts[a]
                    \in TerminalProgress
      ]_vars

\* C3: a campaign whose status is Completed keeps that status in every
\* later step.
C3_CompletedCampaignStaysCompleted ==
    [][\A g \in GroupKeys, c \in CampaignIds :
          (/\ campaign_found(campaigns_workflow, g, c)
           /\ campaign_found(campaigns_workflow', g, c)
           /\ get_campaign(campaigns_workflow, g, c).campaign_status = "Completed")
          => get_campaign(campaigns_workflow', g, c).campaign_status = "Completed"
      ]_vars

\* C4: start_campaign on a campaign whose status is not Not Started returns
\* failure and changes nothing.
C4_StartCampaignOnStartedIsNoOp ==
    [][\A g \in GroupKeys, c \in CampaignIds :
          (/\ StartCampaign(g, c)
           /\ campaign_found(campaigns_workflow, g, c)
           /\ get_campaign(campaigns_workflow, g, c).campaign_status # "Not Started")
          => /\ last_call'.res = "False"
             /\ campaigns_workflow' = campaigns_workflow
      ]_vars

\* The lowest-numbered stage that is not Completed, or the last stage.
FirstNotCompleted(campaign) ==
    LET open == {i \in 1..Len(campaign.stages) :
                    campaign.stages[i].sequence_status # "Completed"}
    IN IF open = {} THEN Len(campaign.stages)
       ELSE CHOOSE i \in open : \A j \in open : i <= j

\* C5: start_campaign on an existing campaign whose status is Not Started
\* returns success; the contacts of the current stage are Pending, that
\* stage and the campaign are In Progress, every other stage is unchanged.
C5_StartCampaignStartsCurrentStage ==
    [][\A g \in GroupKeys, c \in CampaignIds :
          (/\ StartCampaign(g, c)
           /\ campaign_found(campaigns_workflow, g, c)
           /\ get_campaign(campaigns_workflow, g, c).campaign_status = "Not Started"
           /\ Len(get_campaign(campaigns_workflow, g, c).stages) > 0)
          => LET before == get_campaign(campaigns_workflow, g, c)
                 after == get_campaign(campaigns_workflow', g, c)
                 cur == FirstNotCompleted(before)
             IN /\ last_call'.res = "True"
                /\ after.campaign_status = "In Progress"
                /\ after.stages[cur].sequence_status = "In Progress"
                /\ \A a \in DOMAIN before.stages[cur].contacts :
                      before.stages[cur].contacts[a] = "Not Started"
                          => after.stages[cur].contacts[a] = "Pending"
                /\ \A i \in DOMAIN before.stages :
                      i # cur => after.stages[i] = before.stages[i]
      ]_vars

\* C6: adding a group under a key that is already present returns failure
\* and leaves the documents, the set of groups and the Jobs as they were.
C6_AddExistingGroupChangesNothing ==
    [][\A g \in GroupKeys :
          (/\ g \in DOMAIN campaigns_workflow
           /\ last_call'.op \in {"add_campaigns", "process_directory"}
           /\ last_call'.group = g)
          => /\ last_call'.res = "False"
             /\ campaigns_workflow' = campaigns_workflow
             /\ jobs' = jobs
      ]_vars

\* A second add under the key of a group whose campaign has been started.
C6_Witness ==
    /\ last_call.op = "add_campaigns"
    /\ last_call.res = "False"
    /\ jobs # {}
    /\ \E g \in {last_call.group} \cap DOMAIN campaigns_workflow :
          \E c \in DOMAIN campaigns_workflow[g].campaigns :
             /\ campaigns_workflow[g].campaigns[c].campaign_status = "In Progress"
             /\ \E s \in DOMAIN campaigns_workflow[g].campaigns[c].stages :
                   \E a \in DOMAIN get_stage(campaigns_workflow, g, c, s).contacts :
                      get_stage(campaigns_workflow, g, c, s).contacts[a] = "Email Sent"

\* A contact of the document, whatever the type of the stage key.
contact_in_document(wf, g, c, s, a) ==
    /\ stage_in_document(wf, g, c, s)
    /\ a \in DOMAIN get_stage(wf, g, c, s).contacts

\* C7: update_contact_status fails and changes nothing for a status outside
\* CONTACT_ALLOWED_STATUSES or an unknown group, campaign, stage or contact;
\* for a contact of the document and an allowed status it succeeds and the
\* contact's progress is the new status.
C7_UpdateContactStatusContract ==
    [][\A g \in GroupKeys, c \in CampaignIds, s \in StageArgs, a \in ContactArgs,
          status \in StatusArgs :
          UpdateContactStatus(g, c, s, a, status)
          => IF /\ contact_in_document(campaigns_workflow, g, c, s, a)
                /\ status \in CONTACT_ALLOWED_STATUSES
             THEN /\ last_call'.res = "True"
                  /\ get_stage(campaigns_workflow', g, c, s).contacts[a] = status
             ELSE /\ last_call'.res = "False"
                  /\ campaigns_workflow' = campaigns_workflow
      ]_vars

\* C8: on a stage get_stage finds, completed_stage returns true exactly when
\* every contact of the stage has a terminal progress, Skip included.
C8_CompletedStageIffAllTerminal ==
    \A g \in GroupKeys, c \in CampaignIds, s \in StageArgs :
        stage_found(campaigns_workflow, g, c, s)
        => (completed_stage(campaigns_workflow, g, c, s).res = "True"
            <=> \A a \in DOMAIN get_stage(campaigns_workflow, g, c, s).contacts :
                   get_stage(campaigns_workflow, g, c, s).contacts[a]
                       \in TerminalProgress)

\* C9: completed_stage on a stage whose status is already Completed returns
\* true and leaves the model as it was.
C9_CompletedStageIdempotent ==
    [][\A g \in GroupKeys, c \in CampaignIds, s \in StageArgs :
          (/\ CompletedStage(g, c, s)
           /\ stage_found(campaigns_workflow, g, c, s)
           /\ get_stage(campaigns_workflow, g, c, s).sequence_status = "Completed")
          => /\ last_call'.res = "True"
             /\ campaigns_workflow' = campaigns_workflow
      ]_vars

\* C10: for every campaign of a document with int stage keys,
\* get_current_stage returns the lowest-numbered stage that is not Completed
\* (the last stage when all are Completed) and the number of stages.
C10_CurrentStageIsFirstNotCompleted ==
    \A g \in GroupKeys, c \in CampaignIds :
        (/\ campaign_found(campaigns_workflow, g, c)
         /\ campaigns_workflow[g].key_type = "int")
        => get_current_stage(campaigns_workflow, g, c)
             = Pair(FirstNotCompleted(get_campaign(campaigns_workflow, g, c)),
                    total_stage(campaigns_workflow, g, c))

\* C11: move_to_next_stage called while the campaign's current stage (the
\* lowest-numbered stage that is not Completed, or the last stage) is its
\* last stage returns False and changes no contact progress, no stage status
\* and not the campaign status.
C11_MoveAtLastStageChangesNothing ==
    [][\A g \in GroupKeys, c \in CampaignIds :
          (/\ MoveToNextStage(g, c)
           /\ campaign_found(campaigns_workflow, g, c)
           /\ Len(get_campaign(campaigns_workflow, g, c).stages) > 0
           /\ FirstNotCompleted(get_campaign(campaigns_workflow, g, c))
                = Len(get_campaign(campaigns_workflow, g, c).stages))
          => /\ last_call'.res = "False"
             /\ campaigns_workflow' = campaigns_workflow
      ]_vars

\* C12: move_to_next_stage called while the current stage k is not the last
\* stage returns True; afterwards stage k+1 is In Progress with every contact
\* Pending, and the campaign status, every other stage, every other campaign
\* and every other group are as before.
C12_MoveStartsNextStage ==
    [][\A g \in GroupKeys, c \in CampaignIds :
          (/\ MoveToNextStage(g, c)
           /\ campaign_found(campaigns_workflow, g, c)
           /\ FirstNotCompleted(get_campaign(campaigns_workflow, g, c))
                < Len(get_campaign(campaigns_workflow, g, c).stages))
          => LET before == get_campaign(campaigns_workflow, g, c)
                 k == FirstNotCompleted(before)
                 after == get_campaign(campaigns_workflow', g, c)
             IN /\ last_call'.res = "True"
                /\ campaign_found(campaigns_workflow', g, c)
                /\ after.campaign_status = before.campaign_status
                /\ after.stages[k + 1].sequence_status = "In Progress"
                /\ \A a \in DOMAIN after.stages[k + 1].contacts :
                      after.stages[k + 1].contacts[a] = "Pending"
                /\ \A i \in DOMAIN before.stages :
                      i # k + 1 => after.stages[i] = before.stages[i]
                /\ campaigns_workflow'
                     = [campaigns_workflow EXCEPT ![g].campaigns[c] = after]
      ]_vars

\* The Jobs of a campaign.
jobs_of(jb, g, c) == {j \in jb : j.group = g /\ j.campaign = c}

\* C13: schedule_campaign on an existing campaign that has not started
\* returns success and leaves exactly one Job for the campaign, keyed by the
\* campaign's current stage; whenever schedule_campaign returns failure, no
\* Job exists for the campaign afterwards.
C13_ScheduleCampaignRegistersOneJob ==
    [][\A g \in GroupKeys, c \in CampaignIds, exceeded \in ExceededArgs :
          ScheduleCampaign(g, c, exceeded)
          => /\ (/\ campaign_found(campaigns_workflow, g, c)
                 /\ get_campaign(campaigns_workflow, g, c).campaign_status
                      = "Not Started"
                 /\ Len(get_campaign(campaigns_workflow, g, c).stages) > 0)
                => /\ last_call'.res = "True"
                   /\ Cardinality(jobs_of(jobs', g, c)) = 1
                   /\ \A j \in jobs_of(jobs', g, c) :
                         j.stage = FirstNotCompleted(
                                      get_campaign(campaigns_workflow, g, c))
             /\ last_call'.res = "False" => jobs_of(jobs', g, c) = {}
      ]_vars

\* Stage k is the stage the campaign has reached and it is complete: every
\* stage up to k is Completed with terminal contacts, every later stage has
\* not started.
reached_and_complete(campaign, k) ==
    /\ k \in DOMAIN campaign.stages
    /\ \A i \in DOMAIN campaign.stages :
          IF i <= k
          THEN /\ campaign.stages[i].sequence_status = "Completed"
               /\ \A a \in DOMAIN campaign.stages[i].contacts :
                     campaign.stages[i].contacts[a] \in TerminalProgress
          ELSE campaign.stages[i].sequence_status = "Not Started"

\* C14: for a started campaign whose current stage k is complete,
\* schedule_next_stage with k not the last stage returns success and leaves
\* no Job for stage k, exactly one Job for stage k+1, stage k+1 In Progress
\* with its contacts Pending and stage k Completed; with k the last stage it
\* registers no Job, leaves stage k Completed and returns failure.
C14_ScheduleNextStageActivatesNext ==
    [][\A g \in GroupKeys, c \in CampaignIds, exceeded \in ExceededArgs :
          (/\ ScheduleNextStage(g, c, exceeded)
           /\ campaign_found(campaigns_workflow, g, c)
           /\ get_campaign(campaigns_workflow, g, c).campaign_status
                # "Not Started")
          => \A k \in StageArgs :
                reached_and_complete(get_campaign(campaigns_workflow, g, c), k)
                => LET total == Len(get_campaign(campaigns_workflow, g, c).stages)
                       after == get_campaign(campaigns_workflow', g, c)
                   IN IF k < total
                      THEN /\ last_call'.res = "True"
                           /\ get_job(jobs', g, c, k) = {}
                           /\ Cardinality(get_job(jobs', g, c, k + 1)) = 1
                           /\ after.stages[k + 1].sequence_status = "In Progress"
                           /\ \A a \in DOMAIN after.stages[k + 1].contacts :
                                 after.stages[k + 1].contacts[a] = "Pending"
                           /\ after.stages[k].sequence_status = "Completed"
                      ELSE /\ last_call'.res = "False"
                           /\ jobs' \subseteq jobs
                           /\ after.stages[k].sequence_status = "Completed"
      ]_vars

\* C16: no Job is registered with a start date at or before the moment of
\* its registration; and at a moment when every stored start time of the
\* campaign has passed, a scheduling call that would succeed with the start
\* times still ahead succeeds and leaves a Job whose start date is now + 5
\* seconds on a stage In Progress.
C16_PassedStartTimeIsCorrected ==
    [][/\ \A j \in jobs' : ~j.passed
       /\ \A g \in GroupKeys, c \in CampaignIds :
             /\ (/\ last_call'.op = "schedule_campaign"
                 /\ ScheduleCampaign(g, c, [s \in StageArgs |-> TRUE])
                 /\ schedule_campaign(campaigns_workflow, jobs, g, c,
                                      [s \in StageArgs |-> FALSE]).res = "True")
                => /\ last_call'.res = "True"
                   /\ \E j \in jobs_of(jobs', g, c) :
                         /\ j.start_date = "now+5s"
                         /\ get_stage(campaigns_workflow', g, c, j.stage)
                              .sequence_status = "In Progress"
             /\ (/\ last_call'.op = "schedule_next_stage"
                 /\ ScheduleNextStage(g, c, [s \in StageArgs |-> TRUE])
                 /\ schedule_next_stage(campaigns_workflow, jobs, g, c,
                                        [s \in StageArgs |-> FALSE]).res = "True")
                => /\ last_call'.res = "True"
                   /\ \E j \in jobs_of(jobs', g, c) :
                         /\ j.start_date = "now+5s"
                         /\ get_stage(campaigns_workflow', g, c, j.stage)
                              .sequence_status = "In Progress"
      ]_vars

C15_OneJobPerCampaignAtCurrentStage ==
    \A g \in GroupKeys, c \in CampaignIds :
        /\ Cardinality(jobs_of(jobs, g, c)) <= 1
        /\ \A j \in jobs_of(jobs, g, c) :
              /\ campaign_found(campaigns_workflow, g, c)
              /\ j.stage = FirstNotCompleted(get_campaign(campaigns_workflow, g, c))
              /\ get_campaign(campaigns_workflow, g, c).stages[j.stage].sequence_status
                   = "In Progress"

\* A stage as build_campaign_data stores it when its start time had passed
\* at ingestion.
lapsed(stage) ==
    /\ stage.start_time = ""
    /\ stage.sequence_status = "Completed"
    /\ \A a \in DOMAIN stage.contacts : stage.contacts[a] = "Skip"

\* C17: a stage whose start time had passed at ingestion is stored as
\* Completed with every contact Skip; no later step registers a Job for it,
\* changes its status or changes the progress of one of its contacts; and
\* schedule_campaign on a campaign whose stages up to s lapsed and whose
\* stage s+1 has not started registers the campaign's Job for stage s+1.
C17_LapsedStageStaysSkipped ==
    [][\A g \in GroupKeys, c \in CampaignIds, s \in StageArgs :
          /\ (/\ g \notin DOMAIN campaigns_workflow
              /\ stage_in_document(campaigns_workflow', g, c, s)
              /\ get_campaign(campaigns_workflow', g, c).stages[s].start_time = "")
             => /\ lapsed(get_campaign(campaigns_workflow', g, c).stages[s])
                /\ get_job(jobs', g, c, s) = {}
          /\ (/\ stage_in_document(campaigns_workflow, g, c, s)
              /\ lapsed(get_campaign(campaigns_workflow, g, c).stages[s])
              /\ g \in DOMAIN campaigns_workflow')
             => /\ stage_in_document(campaigns_workflow', g, c, s)
                /\ lapsed(get_campaign(campaigns_workflow', g, c).stages[s])
                /\ get_job(jobs', g, c, s) = {}
          /\ \A exceeded \in ExceededArgs :
                (/\ ScheduleCampaign(g, c, exceeded)
                 /\ stage_in_document(campaigns_workflow, g, c, s + 1)
                 /\ lapsed(get_campaign(campaigns_workflow, g, c).stages[s])
                 /\ get_campaign(campaigns_workflow, g, c).stages[s + 1].sequence_status
                      = "Not Started")
                => /\ last_call'.res = "True"
                   /\ get_job(jobs', g, c, s + 1) # {}
                   /\ jobs_of(jobs', g, c) = get_job(jobs', g, c, s + 1)
      ]_vars

\* C19: when the store file holds the saved document, the document a new
\* CampaignManager loads from it equals the document that was saved, stage
\* keys included, so every stage lookup that succeeded before the save
\* succeeds with the same result after the load.
C19_SaveLoadRoundTrip ==
    [][(/\ Restart
        /\ store_file.exists
        /\ store_file.doc = json_dump(campaigns_workflow))
       => /\ campaigns_workflow' = campaigns_workflow
          /\ \A g \in GroupKeys, c \in CampaignIds, s \in StageArgs :
                stage_found(campaigns_workflow, g, c, s)
                => /\ stage_found(campaigns_workflow', g, c, s)
                   /\ get_stage(campaigns_workflow', g, c, s)
                        = get_stage(campaigns_workflow, g, c, s)
      ]_vars

C21_ReaderSeesWholeDocument ==
    store_file.exists => disk = "whole"

\* C27: the mutators of the threads are serialized. After a step that leaves
\* no thread inside a mutator, the store file holds the whole dump of the
\* document with every update made; and completed_stage marks a stage
\* Completed only while every contact of the stage is still finished.
C27_MutationsAreSerialized ==
    [][/\ (\A t \in Threads : saving'[t].pc = "idle")
          => /\ disk' = "whole"
             /\ store_file'.exists => store_file'.doc = json_dump(campaigns_workflow')
       /\ \A t \in Threads :
             ThreadMarkStage(t)
             => \A a \in DOMAIN get_stage(campaigns_workflow, saving[t].group,
                                          saving[t].campaign, saving[t].stage).contacts :
                   get_stage(campaigns_workflow, saving[t].group,
                             saving[t].campaign, saving[t].stage).contacts[a]
                     \in CompletedProgress
      ]_vars

\* C22: with the job runner and the control loop running and every e-mail
\* sent, every campaign of a group that process_directory ingested, and every
\* campaign that has a Job, eventually reaches status Completed.
C22_EveryCampaignCompletes ==
    \A g \in GroupKeys, c \in CampaignIds :
       (/\ campaign_found(campaigns_workflow, g, c)
        /\ \/ last_call.op = "process_directory" /\ last_call.group = g
           \/ jobs_of(jobs, g, c) # {})
       ~> (/\ campaign_found(campaigns_workflow, g, c)
           /\ get_campaign(campaigns_workflow, g, c).campaign_status = "Completed")

\* The group is in the document and none of its campaigns is incomplete.
no_incomplete_campaign(wf, g) ==
    /\ g \in DOMAIN wf
    /\ \A c \in DOMAIN wf[g].campaigns :
          wf[g].campaigns[c].campaign_status = "Completed"

\* C23: a group with no incomplete campaign (a group without campaigns
\* included) is eventually removed from the document and from the store file.
C23_CompletedGroupIsRemoved ==
    \A g \in GroupKeys :
       no_incomplete_campaign(campaigns_workflow, g)
       ~> (/\ g \notin DOMAIN campaigns_workflow
           /\ store_file.exists => g \notin DOMAIN store_file.doc)

C25_EverySiblingIsAttempted ==
    [][\A g \in GroupKeys, data \in CampaignsData,
          exceeded \in [CampaignIds -> BOOLEAN] :
          (/\ ProcessDirectory(g, data, exceeded)
           /\ g \notin DOMAIN campaigns_workflow)
          => start_campaigns_calls(
                 add_campaigns(campaigns_workflow, g,
                               [key_type |-> "str", campaigns |-> data]).wf,
                 jobs, g, 1, exceeded) = DOMAIN data
      ]_vars

\* C26: the control loop makes a pass again and again, whether or not the
\* event is set.
C26_LoopAlwaysRunsAgain ==
    []<><<\E exceeded \in [CampaignIds -> ExceededArgs] : ControlLoop(exceeded)>>_vars

\* C29: in every state, for every group, campaign and stage, known or not,
\* get_current_stage returns a pair and get_stage_start_time does not raise.
C29_GettersFailSoftly ==
    \A g \in GroupKeys, c \in CampaignIds :
       /\ get_current_stage(campaigns_workflow, g, c).kind = "pair"
       /\ \A s \in StageArgs :
             get_stage_start_time(campaigns_workflow, g, c, s) # "Raise"

\* A group document that passes structural validation: it has a campaign,
\* and every campaign has a stage. (The documents of CampaignsData carry
\* every required key.)
structurally_valid(data) ==
    /\ DOMAIN data # {}
    /\ \A c \in DOMAIN data : Len(data[c].stages) > 0

\* C30: add_campaigns with a document that fails structural validation
\* returns False and leaves the set of groups and the store file unchanged.
C30_InvalidDocumentIsRejected ==
    [][\A g \in GroupKeys, kt \in KeyTypes, data \in CampaignsData :
          (AddCampaigns(g, kt, data) /\ ~structurally_valid(data))
          => /\ last_call'.res = "False"
             /\ DOMAIN campaigns_workflow' = DOMAIN campaigns_workflow
             /\ store_file' = store_file
      ]_vars

\* C28: a mutating operation called while the store file cannot be written
\* does not raise, returns what it returns with a working store, and leaves
\* the document as it leaves it with a working store; for start_campaign that
\* is every contact of the stage Pending, the stage and the campaign In
\* Progress.
C28_StoreFailureIsAbsorbed ==
    [][/\ \A g \in GroupKeys, kt \in KeyTypes, data \in CampaignsData :
             AddCampaignsStoreFails(g, kt, data)
             => /\ last_call'.res # "Raise"
                /\ campaigns_workflow'
                     = add_campaigns(campaigns_workflow, g,
                                     [key_type |-> kt, campaigns |-> data]).wf
       /\ \A g \in GroupKeys, c \in CampaignIds, s \in StageArgs,
             a \in ContactArgs, status \in StatusArgs :
             UpdateContactStatusStoreFails(g, c, s, a, status)
             => /\ last_call'.res # "Raise"
                /\ campaigns_workflow'
                     = update_contact_status(campaigns_workflow, g, c, s, a,
                                             status).wf
       /\ \A g \in GroupKeys, c \in CampaignIds :
             StartCampaignStoreFails(g, c)
             => /\ last_call'.res = start_campaign(campaigns_workflow, g, c).res
                /\ campaigns_workflow'
                     = start_campaign(campaigns_workflow, g, c).wf
      ]_vars

\* C31: with the persistence setting disabled no mutating operation changes
\* the store file, and a start of the process deletes the file and begins
\* with an empty document; with the setting enabled every mutation leaves
\* the file holding the dump of the document.
C31_PersistenceSettingIsObeyed ==
    [][IF FILE_PERSISTENCE
       THEN campaigns_workflow' # campaigns_workflow
            => store_file' = [exists |-> TRUE, doc |-> json_dump(campaigns_workflow')]
       ELSE IF Restart
            THEN ~store_file'.exists /\ campaigns_workflow' = <<>>
            ELSE store_file' = store_file
      ]_vars

\* C32: once shutdown_scheduler has returned, no Job is registered and the
\* worker is not inside an action.
C32_ShutdownDrains ==
    exited => /\ jobs = {}
              /\ saving["runner"].pc = "idle"

\* shutdown_scheduler has returned after an action that was running when it
\* was called came to its end.
C32_Witness ==
    /\ exited
    /\ last_call.op = "send_email_action"
    /\ \E g \in DOMAIN campaigns_workflow, c \in CampaignIds, s \in StageArgs :
          /\ stage_found(campaigns_workflow, g, c, s)
          /\ \E a \in DOMAIN get_stage(campaigns_workflow, g, c, s).contacts :
                get_stage(campaigns_workflow, g, c, s).contacts[a] = "Email Sent"

\* C33: schedule_campaign for a campaign whose current stage already holds a
\* Job returns True and leaves exactly one Job under that key, with the
\* start time the stage has after the call.
C33_SecondRegistrationReplaces ==
    [][\A g \in GroupKeys, c \in CampaignIds, exceeded \in ExceededArgs :
          (/\ ScheduleCampaign(g, c, exceeded)
           /\ campaign_found(campaigns_workflow, g, c)
           /\ get_current_stage(campaigns_workflow, g, c).kind = "pair"
           /\ stage_found(campaigns_workflow, g, c,
                          get_current_stage(campaigns_workflow, g, c).stage)
           /\ stage_found(campaigns_workflow, g, c, 1)
           /\ ~fromisoformat_raises(campaigns_workflow, g, c, 1)
           /\ ~fromisoformat_raises(campaigns_workflow, g, c,
                                    get_current_stage(campaigns_workflow, g, c).stage)
           /\ get_job(jobs, g, c,
                      get_current_stage(campaigns_workflow, g, c).stage) # {})
          => /\ last_call'.res = "True"
             /\ \E j \in jobs' :
                   /\ get_job(jobs', g, c,
                              get_current_stage(campaigns_workflow, g, c).stage) = {j}
                   /\ j.start_date
                        = get_stage(campaigns_workflow', g, c, j.stage).start_time
      ]_vars

\* C34: a firing of a Job sends no e-mail to a contact whose progress in the
\* Job's stage is already terminal when it fires.
C34_OnlyPendingContactsAreSent ==
    [][\A j \in jobs : \A built \in SUBSET j.contacts :
          (JobFires(j, built) /\ stage_found(campaigns_workflow, j.group,
                                             j.campaign, j.stage))
          => \A a \in built :
                get_stage(campaigns_workflow, j.group, j.campaign,
                          j.stage).contacts[a] \notin TerminalProgress
      ]_vars

\* The stage is In Progress with a contact Pending and holds no Job.
started_with_no_job(wf, jb, g, c, s) ==
    /\ stage_found(wf, g, c, s)
    /\ get_stage(wf, g, c, s).sequence_status = "In Progress"
    /\ \E a \in DOMAIN get_stage(wf, g, c, s).contacts :
          get_stage(wf, g, c, s).contacts[a] = "Pending"
    /\ get_job(jb, g, c, s) = {}

\* C35: a stage that is In Progress with a contact Pending and no Job does
\* not stay so for ever.
C35_StartedWithNoJobIsRecovered ==
    \A g \in GroupKeys, c \in CampaignIds, s \in StageArgs :
       started_with_no_job(campaigns_workflow, jobs, g, c, s)
       ~> ~started_with_no_job(campaigns_workflow, jobs, g, c, s)

\* C36: after a start of the process that loaded the store file, every
\* campaign of the loaded document that is not Completed eventually has a
\* Job.
C36_CampaignsResumeAfterRestart ==
    \A g \in GroupKeys, c \in CampaignIds :
       (/\ last_call.op = "restart"
        /\ campaign_found(campaigns_workflow, g, c)
        /\ get_campaign(campaigns_workflow, g, c).campaign_status # "Completed")
       ~> jobs_of(jobs, g, c) # {}

C38_TerminalProgressIsKept ==
    [][\A g \in GroupKeys, c \in CampaignIds, s \in StageArgs, a \in ContactArgs :
          (/\ contact_in_document(campaigns_workflow, g, c, s, a)
           /\ contact_in_document(campaigns_workflow', g, c, s, a)
           /\ get_stage(campaigns_workflow, g, c, s).contacts[a] \in TerminalProgress)
          => get_stage(campaigns_workflow', g, c, s).contacts[a]
               \notin {"Pending", "Not Started"}
      ]_vars

\* C39: in every campaign at most one stage is In Progress, every stage
\* below a stage In Progress is Completed and every stage above it is Not
\* Started; a campaign that is Not Started has no stage In Progress.
C39_StageStatusesFormAPrefix ==
    \A g \in GroupKeys, c \in CampaignIds :
       campaign_found(campaigns_workflow, g, c)
       => \A s \in DOMAIN get_campaign(campaigns_workflow, g, c).stages :
             get_campaign(campaigns_workflow, g, c).stages[s].sequence_status
               = "In Progress"
             => /\ get_campaign(campaigns_workflow, g, c).campaign_status
                     # "Not Started"
                /\ \A i \in DOMAIN get_campaign(campaigns_workflow, g, c).stages :
                      /\ i < s => get_campaign(campaigns_workflow, g, c)
                                     .stages[i].sequence_status = "Completed"
                      /\ i > s => get_campaign(campaigns_workflow, g, c)
                                     .stages[i].sequence_status = "Not Started"

====
